---------------------------- MODULE Spec2Model ----------------------------
(***************************************************************************)
(* "The Signal in the Nebula" (src/main.cpp): a branching narrative run    *)
(* over a directed graph of scenes.  The model covers the graph container  *)
(* (StoryGraph), the input validation loop (readMenuChoice) and the game   *)
(* loop of main().                                                         *)
(*                                                                         *)
(* Scene text and choice labels are opaque strings that no branch of the   *)
(* program reads; a scene is modelled by its id, its text and the ordered  *)
(* list of its choices, a choice by its nextId.  Output is modelled by     *)
(* what was shown: the ids whose text was rendered, the numbered menu, the *)
(* last message of the input loop and the diagnostic of a missing node.    *)
(***************************************************************************)
EXTENDS Integers, Sequences, FiniteSets, TLC

VARIABLES
    nodes,      \* StoryGraph::nodes, the map id -> StoryNode
    pc,         \* position of main(): see PcValues
    currentId,  \* main: int currentId
    history,    \* main: vector<int> history
    node,       \* main: const StoryNode* node (a key of nodes, or nullptr)
    rendered,   \* ids whose text was printed by printSlow(node->text, 0)
    menu,       \* the numbered menu printed for the current iteration
    maxOpt,     \* readMenuChoice: the argument of the call in progress
    line,       \* readMenuChoice: the line getline read last in this call
    msg,        \* readMenuChoice: what the last loop iteration printed
    retried,    \* readMenuChoice: a line was rejected earlier in this call
    eof,        \* cin has failed: getline returned false
    pick,       \* main: int pick, the value readMenuChoice returned
    picks,      \* the selections returned so far, in order
    errId,      \* the id named by "ERROR: Missing node <id>"
    exit,       \* how the process ended
    lastAdded   \* buildGame: the argument of the addNode call last made,
                \* and whether that call found, stored under its id, a scene
                \* of another text and another choice list

vars == <<nodes, pc, currentId, history, node, rendered, menu, maxOpt, line,
          msg, retried, eof, pick, picks, errId, exit, lastAdded>>

-----------------------------------------------------------------------------
(* Bounds of the model *)

\* scene ids and choice targets range over 0..MaxId
MaxId == 1

\* the scenes of a graph declare at most MaxEdges choices in all
MaxEdges == 3

\* main() is followed for at most MaxHist visited scenes
MaxHist == 3

\* the container followed alone holds at most MaxUpsert choices in all
MaxUpsert == 2

-----------------------------------------------------------------------------
(* Program constants *)

\* main: int currentId = 0
StartId == 0

\* std::numeric_limits<int>::max(): stoi throws std::out_of_range above it
INT_MAX == 2147483647

\* the null pointer StoryGraph::get returns; no scene id is negative
nullptr == -1

Ids == 0 .. MaxId


-----------------------------------------------------------------------------
(* Story data structures *)

\* struct Choice { string label; int nextId; }
Choice == [nextId : Ids]

ChoiceLists == UNION {[1 .. n -> Choice] : n \in 0 .. MaxEdges}

\* the narrative texts of the model
Texts == {"A", "B"}

\* struct StoryNode { int id; string text; vector<Choice> choices; }
StoryNode == [id : Ids, text : Texts, choices : ChoiceLists]

\* the scenes passed to addNode when the container is followed alone
UpsertNode ==
    [id : Ids, text : Texts,
     choices : UNION {[1 .. n -> Choice] : n \in 0 .. MaxUpsert}]

\* No branch of the program reads the text of a scene: the sessions over
\* arbitrary graphs are followed for scenes of one text.
PlainNode == {n \in StoryNode : n.text = "A"}

\* isEnding that also takes a scene with a single choice for an ending
isEndingAtMostOne(n) == Len(n.choices) <= 1

\* StoryNode::isEnding
isEnding(n) == Len(n.choices) = 0


\* addNode with nodes.insert({node.id, node}): a stored scene is kept
addNodeInsert(g, n) ==
    [i \in (DOMAIN g) \cup {n.id} |-> IF i \in DOMAIN g THEN g[i] ELSE n]

\* StoryGraph::addNode: nodes[node.id] = node
addNode(g, n) ==
    [i \in (DOMAIN g) \cup {n.id} |-> IF i = n.id THEN n ELSE g[i]]

\* StoryGraph::get: the entry found, or nullptr
get(g, id) == IF id \in DOMAIN g THEN id ELSE nullptr

\* the empty std::map
EmptyGraph == [i \in {} |-> 0]

\* the number of choices declared by the scenes of g
RECURSIVE EdgesOf(_, _)
EdgesOf(g, S) ==
    IF S = {} THEN 0
    ELSE LET i == CHOOSE j \in S : TRUE
         IN  Len(g[i].choices) + EdgesOf(g, S \ {i})

EdgeCount(g) == EdgesOf(g, DOMAIN g)

-----------------------------------------------------------------------------
(* readMenuChoice: one line of input *)

Digits == {"0", "1", "2", "3", "4", "5", "6", "7", "8", "9"}

\* isdigit(static_cast<unsigned char>(c))
isdigit(c) == c \in Digits

DigitVal(c) ==
    CASE c = "0" -> 0 [] c = "1" -> 1 [] c = "2" -> 2 [] c = "3" -> 3
      [] c = "4" -> 4 [] c = "5" -> 5 [] c = "6" -> 6 [] c = "7" -> 7
      [] c = "8" -> 8 [] c = "9" -> 9

\* the loop over the characters of the line: numeric stays true only if
\* every character is a digit
numeric(l) == \A i \in 1 .. Len(l) : isdigit(l[i])

\* the decimal value of the digits l[i..], accumulated onto acc digit by
\* digit as the conversion does; it stops once the value no longer fits an int
RECURSIVE Accumulate(_, _, _)
Accumulate(l, i, acc) ==
    IF i > Len(l) THEN [overflow |-> FALSE, val |-> acc]
    ELSE IF acc > (INT_MAX - DigitVal(l[i])) \div 10
         THEN [overflow |-> TRUE, val |-> INT_MAX]
         ELSE Accumulate(l, i + 1, 10 * acc + DigitVal(l[i]))

DecVal(l) == Accumulate(l, 1, 0)

\* std::stoi on a non-empty string of digits: the value, or the exception
\* std::out_of_range when the value does not fit an int
stoi(l) == [throws |-> DecVal(l).overflow, val |-> DecVal(l).val]

\* what one iteration of the while loop of readMenuChoice does with a line
\* that getline delivered
Blank == "blank"
NotNumber == "Please enter a number."
InvalidOption == "Please choose a valid option."
Accept == "accept"
Throw == "std::out_of_range"

\* Outcome with the lower bound of the range check off by one
OutcomeAcceptsZero(l, max) ==
    IF Len(l) = 0 THEN Blank
    ELSE IF ~numeric(l) THEN NotNumber
    ELSE IF stoi(l).throws THEN Throw
    ELSE IF stoi(l).val < 0 \/ stoi(l).val > max THEN InvalidOption
    ELSE Accept

Outcome(l, max) ==
    IF Len(l) = 0 THEN Blank
    ELSE IF ~numeric(l) THEN NotNumber
    ELSE IF stoi(l).throws THEN Throw
    ELSE IF stoi(l).val < 1 \/ stoi(l).val > max THEN InvalidOption
    ELSE Accept

\* the lines the player may type
Lines ==
    { <<>>,
      <<"a", "b", "c">>,
      <<"0">>,
      <<"1">>,
      <<"2">>,
      <<"3">>,
      <<"9", "9">>,
      <<"2", "1", "4", "7", "4", "8", "3", "6", "4", "7">>,
      <<"2", "1", "4", "7", "4", "8", "3", "6", "4", "8">> }

\* Outcome tabulated over the lines the player may type
Outcomes == [l \in Lines |-> [m \in 0 .. MaxEdges |-> Outcome(l, m)]]

-----------------------------------------------------------------------------
(* State *)

PcValues ==
    { "build",       \* buildGame is adding nodes
      "resolve",     \* top of the while loop: graph.get(currentId)
      "record",      \* history.push_back(node->id)
      "render",      \* printSlow(node->text, 0)
      "check",       \* if (node->isEnding())
      "menu",        \* the loop printing the numbered choices
      "prompt",      \* inside readMenuChoice, at getline
      "transition",  \* readMenuChoice returned: currentId = ... nextId
      "terminated",  \* break; return 0
      "broken",      \* "ERROR: Missing node"; return 1
      "aborted" }    \* an exception left main: std::terminate

NoMsg == ""

Running == pc \in {"resolve", "record", "render", "check", "menu", "prompt",
                   "transition"}
Terminated == pc = "terminated"
Broken == pc = "broken"
Aborted == pc = "aborted"

\* the number of elements a vector is followed for: MaxHist, and at least
\* the number of scenes, which no walk without a repeated scene exceeds
Window ==
    IF Cardinality(DOMAIN nodes) > MaxHist
    THEN Cardinality(DOMAIN nodes) ELSE MaxHist

\* vector::push_back, followed for the first Window elements of the vector
PushBack(v, x) == IF Len(v) < Window THEN Append(v, x) ELSE v

Init ==
    /\ nodes = EmptyGraph
    /\ pc = "build"
    /\ currentId = StartId
    /\ history = <<>>
    /\ node = nullptr
    /\ rendered = <<>>
    /\ menu = <<>>
    /\ maxOpt = 0
    /\ line = <<>>
    /\ msg = NoMsg
    /\ retried = FALSE
    /\ eof = FALSE
    /\ pick = 0
    /\ picks = <<>>
    /\ errId = <<>>
    /\ exit = "running"
    /\ lastAdded = <<>>

-----------------------------------------------------------------------------
(* buildGame *)

\* g.addNode({id, text, {choices}})
AddNode(n) ==
    /\ pc = "build"
    /\ nodes' = addNode(nodes, n)
    /\ lastAdded' = <<n, /\ n.id \in DOMAIN nodes
                          /\ nodes[n.id].text # n.text
                          /\ nodes[n.id].choices # n.choices>>
    /\ UNCHANGED <<pc, currentId, history, node, rendered, menu, maxOpt,
                   line, msg, retried, eof, pick, picks, errId, exit>>

\* main: graph = buildGame(); banner; history is empty, currentId = 0
StartSession ==
    /\ pc = "build"
    /\ pc' = "resolve"
    /\ history' = <<>>
    /\ currentId' = StartId
    /\ lastAdded' = <<>>
    /\ UNCHANGED <<nodes, node, rendered, menu, maxOpt, line, msg, retried,
                   eof, pick, picks, errId, exit>>

-----------------------------------------------------------------------------
(* main: the game loop *)


\* Resolve with a lookup by &nodes[id], which std::map::operator[] answers
\* for a missing id by storing a value-initialised scene under it
ResolveInserts ==
    /\ pc = "resolve"
    /\ nodes' = [i \in (DOMAIN nodes) \cup {currentId} |->
                    IF i \in DOMAIN nodes THEN nodes[i]
                    ELSE [id |-> 0, text |-> "", choices |-> <<>>]]
    /\ node' = currentId
    /\ pc' = "record"
    /\ menu' = <<>>
    /\ maxOpt' = 0
    /\ line' = <<>>
    /\ msg' = NoMsg
    /\ retried' = FALSE
    /\ pick' = 0
    /\ UNCHANGED <<currentId, history, rendered, eof, picks, errId, exit,
                   lastAdded>>

\* Resolve without the null check
ResolveUnchecked ==
    /\ pc = "resolve"
    /\ node' = get(nodes, currentId)
    /\ pc' = "record"
    /\ menu' = <<>>
    /\ maxOpt' = 0
    /\ line' = <<>>
    /\ msg' = NoMsg
    /\ retried' = FALSE
    /\ pick' = 0
    /\ UNCHANGED <<nodes, currentId, history, rendered, eof, picks, errId, exit,
                   lastAdded>>

\* const StoryNode* node = graph.get(currentId); if (!node) { ERROR; return 1 }
\* A new iteration starts: nothing of it has been shown or read yet.
Resolve ==
    /\ pc = "resolve"
    /\ node' = get(nodes, currentId)
    /\ IF node' = nullptr
       THEN /\ pc' = "broken"
            /\ errId' = <<currentId>>
            /\ exit' = "1"
       ELSE /\ pc' = "record"
            /\ UNCHANGED <<errId, exit>>
    /\ menu' = <<>>
    /\ maxOpt' = 0
    /\ line' = <<>>
    /\ msg' = NoMsg
    /\ retried' = FALSE
    /\ pick' = 0
    /\ UNCHANGED <<nodes, currentId, history, rendered, eof, picks,
                   lastAdded>>



\* Record as a set of visited scenes: an id already recorded is not added
RecordOncePerScene ==
    /\ pc = "record"
    /\ history' = IF \E i \in 1 .. Len(history) : history[i] = nodes[node].id
                  THEN history
                  ELSE PushBack(history, nodes[node].id)
    /\ pc' = "render"
    /\ UNCHANGED <<nodes, currentId, node, rendered, menu, maxOpt, line, msg,
                   retried, eof, pick, picks, errId, exit,
                   lastAdded>>

\* Record placed after the ending check: a terminal scene is not recorded
RecordSkipsEnding ==
    /\ pc = "record"
    /\ history' = IF isEnding(nodes[node]) THEN history
                  ELSE PushBack(history, nodes[node].id)
    /\ pc' = "render"
    /\ UNCHANGED <<nodes, currentId, node, rendered, menu, maxOpt, line, msg,
                   retried, eof, pick, picks, errId, exit,
                   lastAdded>>

\* history.push_back(node->id)
Record ==
    /\ pc = "record"
    /\ history' = PushBack(history, nodes[node].id)
    /\ pc' = "render"
    /\ UNCHANGED <<nodes, currentId, node, rendered, menu, maxOpt, line, msg,
                   retried, eof, pick, picks, errId, exit,
                   lastAdded>>

\* printSlow(node->text, 0)
Render ==
    /\ pc = "render"
    /\ rendered' = PushBack(rendered, nodes[node].id)
    /\ pc' = "check"
    /\ UNCHANGED <<nodes, currentId, history, node, menu, maxOpt, line, msg,
                   retried, eof, pick, picks, errId, exit,
                   lastAdded>>


\* the loop body without the isEnding branch: every scene goes on to the menu
CheckEndingSkipped ==
    /\ pc = "check"
    /\ pc' = "menu"
    /\ UNCHANGED <<nodes, currentId, history, node, rendered, menu, maxOpt,
                   line, msg, retried, eof, pick, picks, errId, exit,
                   lastAdded>>

\* if (node->isEnding()) { print the path; break; } ... return 0
CheckEnding ==
    /\ pc = "check"
    /\ IF isEnding(nodes[node])
       THEN /\ pc' = "terminated"
            /\ exit' = "0"
       ELSE /\ pc' = "menu"
            /\ UNCHANGED exit
    /\ UNCHANGED <<nodes, currentId, history, node, rendered, menu, maxOpt,
                   line, msg, retried, eof, pick, picks, errId,
                   lastAdded>>

\* the entries "  <i+1>) <label>" in the order of node->choices
MenuOf(n) == [i \in 1 .. Len(n.choices) |-> [num |-> i, choice |-> n.choices[i]]]



\* ShowMenu without the loop that prints the entries
ShowMenuUnprinted ==
    /\ pc = "menu"
    /\ menu' = <<>>
    /\ maxOpt' = Len(nodes[node].choices)
    /\ pc' = "prompt"
    /\ UNCHANGED <<nodes, currentId, history, node, rendered, line, msg,
                   retried, eof, pick, picks, errId, exit,
                   lastAdded>>

\* ShowMenu offering only the choices that lead to scenes not yet visited
ShowMenuHidesVisited ==
    /\ pc = "menu"
    /\ LET fresh(c) == \A i \in 1 .. Len(history) : history[i] # c.nextId
           shown == SelectSeq(nodes[node].choices, fresh)
       IN  /\ menu' = [i \in 1 .. Len(shown) |->
                         [num |-> i, choice |-> shown[i]]]
           /\ maxOpt' = Len(shown)
    /\ pc' = "prompt"
    /\ UNCHANGED <<nodes, currentId, history, node, rendered, line, msg,
                   retried, eof, pick, picks, errId, exit,
                   lastAdded>>

\* print the menu; call readMenuChoice((int)node->choices.size())
ShowMenu ==
    /\ pc = "menu"
    /\ menu' = MenuOf(nodes[node])
    /\ maxOpt' = Len(nodes[node].choices)
    /\ pc' = "prompt"
    /\ UNCHANGED <<nodes, currentId, history, node, rendered, line, msg,
                   retried, eof, pick, picks, errId, exit,
                   lastAdded>>

\* readMenuChoice: the prompt is printed and getline delivers the line l
ReadLine(l) ==
    /\ pc = "prompt"
    /\ ~eof
    /\ line' = l
    /\ LET o == Outcomes[l][maxOpt] IN
         /\ msg' = IF o \in {NotNumber, InvalidOption} THEN o ELSE NoMsg
         /\ pc' = IF o = Accept THEN "transition"
                  ELSE IF o = Throw THEN "aborted"
                  ELSE "prompt"
         /\ pick' = IF o = Accept THEN stoi(l).val ELSE pick
         /\ picks' = IF o = Accept THEN PushBack(picks, stoi(l).val) ELSE picks
         /\ exit' = IF o = Throw THEN "abort" ELSE exit
         /\ retried' = (retried \/ o \in {Blank, NotNumber, InvalidOption})
    /\ UNCHANGED <<nodes, currentId, history, node, rendered, menu, maxOpt,
                   eof, errId,
                   lastAdded>>

\* ReadEOF prompting again when getline fails instead of returning
ReadEOFRetries ==
    /\ pc = "prompt"
    /\ eof' = TRUE
    /\ line' = <<>>
    /\ msg' = NoMsg
    /\ UNCHANGED <<nodes, pc, currentId, history, node, rendered, menu,
                   maxOpt, retried, pick, picks, errId, exit,
                   lastAdded>>

\* ReadEOF falling back to the last option instead of the first
ReadEOFLastOption ==
    /\ pc = "prompt"
    /\ eof' = TRUE
    /\ line' = <<>>
    /\ msg' = NoMsg
    /\ pick' = maxOpt
    /\ picks' = PushBack(picks, maxOpt)
    /\ pc' = "transition"
    /\ UNCHANGED <<nodes, currentId, history, node, rendered, menu, maxOpt,
                   retried, errId, exit,
                   lastAdded>>

\* readMenuChoice: the prompt is printed and getline fails: return 1
ReadEOF ==
    /\ pc = "prompt"
    /\ eof' = TRUE
    /\ line' = <<>>
    /\ msg' = NoMsg
    /\ pick' = 1
    /\ picks' = PushBack(picks, 1)
    /\ pc' = "transition"
    /\ UNCHANGED <<nodes, currentId, history, node, rendered, menu, maxOpt,
                   retried, errId, exit,
                   lastAdded>>

\* Transition that follows the first choice whenever a line was rejected
\* before the selection
TransitionAfterRetry ==
    /\ pc = "transition"
    /\ currentId' = nodes[node].choices[IF retried THEN 1 ELSE pick].nextId
    /\ pc' = "resolve"
    /\ line' = <<>>
    /\ retried' = FALSE
    /\ UNCHANGED <<nodes, history, node, rendered, menu, maxOpt, msg,
                   eof, pick, picks, errId, exit,
                   lastAdded>>

\* Transition with the selection used as a 0-based index
TransitionZeroBased ==
    /\ pc = "transition"
    /\ currentId' = nodes[node].choices[(pick % Len(nodes[node].choices)) + 1].nextId
    /\ pc' = "resolve"
    /\ line' = <<>>
    /\ retried' = FALSE
    /\ UNCHANGED <<nodes, history, node, rendered, menu, maxOpt, msg,
                   eof, pick, picks, errId, exit,
                   lastAdded>>

\* currentId = node->choices[pick - 1].nextId; pauseDots()
\* The locals of the finished call of readMenuChoice are gone.
Transition ==
    /\ pc = "transition"
    /\ currentId' = nodes[node].choices[pick].nextId
    /\ pc' = "resolve"
    /\ line' = <<>>
    /\ retried' = FALSE
    /\ UNCHANGED <<nodes, history, node, rendered, menu, maxOpt, msg,
                   eof, pick, picks, errId, exit,
                   lastAdded>>

-----------------------------------------------------------------------------
(* Specifications *)

\* buildGame adds any scene, within the bound on the choices of the graph
BuildStep ==
    /\ pc = "build"
    /\ \E n \in PlainNode :
          /\ EdgeCount(addNode(nodes, n)) <= MaxEdges
          /\ AddNode(n)


\* buildGame, for scenes of any text, in graphs of at most MaxUpsert choices
BuildAny ==
    /\ pc = "build"
    /\ \E n \in UpsertNode :
          /\ EdgeCount(addNode(nodes, n)) <= MaxUpsert
          /\ AddNode(n)

\* the input stream delivers any line
ReadStep ==
    /\ pc = "prompt"
    /\ \E l \in Lines : ReadLine(l)


\* A graph of three scenes: scene 0 leads to 1 and to 2, scene 1 is an
\* ending, scene 2 leads to 1.
ExampleScenes ==
    << [id |-> 0, text |-> "A",
        choices |-> <<[nextId |-> 1], [nextId |-> 2]>>],
       [id |-> 1, text |-> "A", choices |-> <<>>],
       [id |-> 2, text |-> "A", choices |-> <<[nextId |-> 1]>>] >>

ExampleGraph ==
    addNode(addNode(addNode(EmptyGraph, ExampleScenes[1]),
                    ExampleScenes[2]), ExampleScenes[3])

\* the three addNode calls that build ExampleGraph
BuildExample ==
    /\ pc = "build"
    /\ nodes = EmptyGraph
    /\ nodes' = ExampleGraph
    /\ lastAdded' = <<ExampleScenes[3], FALSE>>
    /\ UNCHANGED <<pc, currentId, history, node, rendered, menu, maxOpt,
                   line, msg, retried, eof, pick, picks, errId, exit>>

\* The session followed exactly, for at most MaxHist visited scenes.
Next ==
    \/ BuildStep
    \/ StartSession
    \/ Resolve
    \/ (Len(history) < MaxHist /\ Record)
    \/ Render
    \/ CheckEnding
    \/ ShowMenu
    \/ ReadStep
    \/ ReadEOF
    \/ Transition

Spec == Init /\ [][Next]_vars


\* The sessions of Spec, and those over ExampleGraph.
NextPath ==
    \/ BuildExample
    \/ Next

PathSpec == Init /\ [][NextPath]_vars


\* The container alone: any sequence of addNode calls.
UpsertSpec == Init /\ [][BuildAny]_vars


\* The scene {i, t, {{label, targets[1]}, {label, targets[2]}, ...}}
Scene(i, t, targets) ==
    [id |-> i, text |-> t,
     choices |-> [k \in 1 .. Len(targets) |-> [nextId |-> targets[k]]]]

\* buildGame: the scenes in the order of the addNode calls, each text
\* standing under the name its comment gives it
ShippedScenes ==
    << Scene(0, "Intro", <<1, 2>>),
       Scene(1, "Curiosity", <<3, 4>>),
       Scene(2, "Defensive", <<1, 5>>),
       Scene(3, "Inquiry", <<6, 7>>),
       Scene(4, "Merge invitation", <<8, 9>>),
       Scene(5, "Manual reboot", <<10, 1>>),
       Scene(6, "Share history", <<11, 12>>),
       Scene(7, "Ask for repairs", <<13, 14>>),
       Scene(8, "ENDING: The Ascension", <<>>),
       Scene(9, "ENDING: The Stasis", <<>>),
       Scene(10, "ENDING: Oblivion", <<>>),
       Scene(11, "ENDING: Unity", <<>>),
       Scene(12, "ENDING: Isolation", <<>>),
       Scene(13, "What do you desire?", <<15, 12>>),
       Scene(14, "ENDING: The Echo", <<>>),
       Scene(15, "ENDING: Rebirth", <<>>) >>

\* buildGame with scene 13 leading to a scene 16 that is never added
BuildGameDangling ==
    /\ pc = "build"
    /\ Cardinality(DOMAIN nodes) < Len(ShippedScenes)
    /\ AddNode([ShippedScenes EXCEPT ![14] =
                   Scene(13, "What do you desire?", <<16, 12>>)]
                       [Cardinality(DOMAIN nodes) + 1])

\* buildGame with scene 5 leading back to scene 2 instead of scene 1
BuildGameCyclic ==
    /\ pc = "build"
    /\ Cardinality(DOMAIN nodes) < Len(ShippedScenes)
    /\ AddNode([ShippedScenes EXCEPT ![6] =
                   Scene(5, "Manual reboot", <<10, 2>>)]
                       [Cardinality(DOMAIN nodes) + 1])

\* buildGame with the two choices of scene 6 declared in the other order
BuildGameReordered ==
    /\ pc = "build"
    /\ Cardinality(DOMAIN nodes) < Len(ShippedScenes)
    /\ AddNode([ShippedScenes EXCEPT ![7] =
                   Scene(6, "Share history", <<12, 11>>)]
                       [Cardinality(DOMAIN nodes) + 1])

\* buildGame: the next addNode call; the ids are distinct, so the number of
\* scenes stored is the number of calls made
BuildGame ==
    /\ pc = "build"
    /\ Cardinality(DOMAIN nodes) < Len(ShippedScenes)
    /\ AddNode(ShippedScenes[Cardinality(DOMAIN nodes) + 1])

\* main: StoryGraph graph = buildGame(), then the session
StartShipped ==
    /\ Cardinality(DOMAIN nodes) = Len(ShippedScenes)
    /\ StartSession

\* The sessions over the graph of buildGame, followed to their end.
NextShipped ==
    \/ BuildGame
    \/ StartShipped
    \/ Resolve
    \/ Record
    \/ Render
    \/ CheckEnding
    \/ ShowMenu
    \/ ReadStep
    \/ ReadEOF
    \/ Transition

\* The session followed without end: history keeps its first Window ids.
\* main() is sequential code that always executes its next statement, and
\* getline returns once the stream delivers a line or its end.
NextLive ==
    \/ BuildStep
    \/ StartSession
    \/ Resolve
    \/ Record
    \/ Render
    \/ CheckEnding
    \/ ShowMenu
    \/ ReadStep
    \/ ReadEOF
    \/ Transition

SessionStep ==
    \/ Resolve
    \/ Record
    \/ Render
    \/ CheckEnding
    \/ ShowMenu
    \/ ReadStep
    \/ ReadEOF
    \/ Transition

LiveSpec == Init /\ [][NextLive]_vars /\ WF_vars(SessionStep)

\* The shipped game, whose statements are executed one after the other.
ShippedSpec == Init /\ [][NextShipped]_vars /\ WF_vars(SessionStep)

TypeOK ==
    /\ DOMAIN nodes \subseteq Ids
    /\ \A i \in DOMAIN nodes : nodes[i] \in StoryNode /\ nodes[i].id = i
    /\ pc \in PcValues
    /\ currentId \in Ids
    /\ node \in Ids \cup {nullptr}
    /\ maxOpt \in 0 .. MaxEdges
    /\ line \in Lines
    /\ msg \in {NoMsg, NotNumber, InvalidOption}
    /\ retried \in BOOLEAN
    /\ eof \in BOOLEAN
    /\ pick \in 0 .. MaxEdges
    /\ Len(history) <= MaxHist
    /\ lastAdded \in {<<>>} \cup (StoryNode \X BOOLEAN)
    /\ exit \in {"running", "0", "1", "abort"}

-----------------------------------------------------------------------------
(* Properties of the session *)

Last(v) == v[Len(v)]

Occurs(v, x) == \E i \in 1 .. Len(v) : v[i] = x

\* a selection has just been followed: Transition has set currentId and the
\* next iteration has not started
JustMoved == pc = "resolve" /\ pick # 0

\* C1 - Menu correspondence: right after a transition out of a scene with
\* choices c1..cn on the validated selection k, k is in 1..n, currentId is
\* the target of ck, and the menu that was displayed numbered the choices
\* 1..n in their declared order, entry k showing ck.
C1_MenuCorrespondence ==
    JustMoved =>
        LET cs == nodes[node].choices IN
        /\ pick \in 1 .. Len(cs)
        /\ currentId = cs[pick].nextId
        /\ Len(menu) = Len(cs)
        /\ \A i \in 1 .. Len(cs) : menu[i] = [num |-> i, choice |-> cs[i]]

\* a transition on the last of at least two choices, whose target is not the
\* target of the first
C1_Witness ==
    /\ JustMoved
    /\ pick >= 2
    /\ pick = Len(nodes[node].choices)
    /\ currentId = nodes[node].choices[pick].nextId
    /\ currentId # nodes[node].choices[1].nextId

\* the current id resolves to a scene without choices
AtEnding == currentId \in DOMAIN nodes /\ Len(nodes[currentId].choices) = 0

\* C2 - Terminal detection: an iteration whose scene has no choices appends
\* the id, renders it and ends in Terminated with exit status 0, showing no
\* menu, reading no input and leaving currentId alone; the positions that
\* show the menu, prompt or move are never reached at such a scene; and
\* Terminated is entered only from the ending check of a scene without
\* choices.
C2_TerminalDetection ==
    /\ [](Terminated =>
            /\ AtEnding
            /\ node = currentId
            /\ history # <<>> /\ Last(history) = currentId
            /\ rendered = history
            /\ menu = <<>> /\ maxOpt = 0 /\ ~retried /\ pick = 0
            /\ exit = "0")
    /\ [](pc \in {"menu", "prompt", "transition"} => ~AtEnding)
    /\ [][(pc = "check" /\ AtEnding) =>
            (Terminated' /\ currentId' = currentId /\ history' = history)]_vars
    /\ [][(Terminated' /\ ~Terminated) => (pc = "check" /\ AtEnding)]_vars

\* Terminated at a scene that was reached by following a choice
C2_Witness ==
    /\ Terminated
    /\ Len(history) >= 2
    /\ picks # <<>>
    /\ currentId # StartId

\* C3 - Broken-graph detection: Broken is entered exactly when the id under
\* resolution has no scene, in the iteration that resolves it: the exit
\* status is 1 and the diagnostic names that id, the id is in neither the
\* history nor the rendered scenes, and nothing was shown or read for it;
\* every position past the lookup has a resolved scene.
C3_BrokenDetection ==
    /\ [](Broken =>
            /\ currentId \notin DOMAIN nodes
            /\ node = nullptr
            /\ errId = <<currentId>>
            /\ exit = "1"
            /\ ~Occurs(history, currentId)
            /\ ~Occurs(rendered, currentId)
            /\ rendered = history
            /\ menu = <<>> /\ maxOpt = 0 /\ ~retried /\ line = <<>>)
    /\ [](pc \in {"record", "render", "check", "menu", "prompt", "transition"}
            => (node = currentId /\ currentId \in DOMAIN nodes))
    /\ [][(pc = "resolve" /\ currentId \notin DOMAIN nodes) =>
            (Broken' /\ history' = history /\ rendered' = rendered)]_vars
    /\ [][(Broken' /\ ~Broken) =>
            (pc = "resolve" /\ currentId \notin DOMAIN nodes)]_vars

\* Broken at the target of a choice, after a scene was visited
C3_Witness ==
    /\ Broken
    /\ history # <<>>
    /\ picks # <<>>
    /\ errId = <<currentId>>

\* C4 - every value readMenuChoice returns is in 1..maxOpt, whether it comes
\* from a validated line or from the stream-failure fallback.
C4_ChoiceInRange ==
    pc = "transition" =>
        /\ maxOpt >= 1
        /\ maxOpt = Len(nodes[node].choices)
        /\ pick \in 1 .. maxOpt

\* the largest option returned for a validated line, after a rejected one
C4_Witness ==
    /\ pc = "transition"
    /\ ~eof
    /\ retried
    /\ maxOpt >= 2
    /\ pick = maxOpt

-----------------------------------------------------------------------------
(* Properties of the input loop *)

\* the loop of readMenuChoice has just handled the line held in `line`
LineRead ==
    /\ ~eof
    /\ \/ pc = "prompt" /\ retried
       \/ pc \in {"transition", "aborted"}

\* a non-empty line of decimal digits
AllDigits(l) == Len(l) > 0 /\ \A i \in 1 .. Len(l) : l[i] \in Digits

RECURSIVE StripZeros(_)
StripZeros(l) ==
    IF Len(l) > 0 /\ Head(l) = "0" THEN StripZeros(Tail(l)) ELSE l

DigitChar == <<"1", "2", "3", "4", "5", "6", "7", "8", "9">>

\* the digits of l are the decimal numeral of k, for k in 1..9; leading
\* zeros do not change the value
Denotes(l, k) == AllDigits(l) /\ StripZeros(l) = <<DigitChar[k]>>

\* the value of an all-digit line lies in 1..max (max is at most 9)
InRange(l, max) == \E k \in 1 .. max : Denotes(l, k)

\* C5 - Input classification: a line read by readMenuChoice(maxOpt) meets
\* exactly one of four outcomes: empty - re-prompt without a message; some
\* non-digit - "Please enter a number." and re-prompt; all digits with a
\* value outside 1..maxOpt - "Please choose a valid option." and re-prompt;
\* all digits with a value in 1..maxOpt - accepted, that value returned.
C5_Classification ==
    LineRead =>
        \/ /\ line = <<>>
           /\ pc = "prompt" /\ msg = NoMsg
        \/ /\ line # <<>> /\ ~AllDigits(line)
           /\ pc = "prompt" /\ msg = NotNumber
        \/ /\ AllDigits(line) /\ ~InRange(line, maxOpt)
           /\ pc = "prompt" /\ msg = InvalidOption
        \/ /\ AllDigits(line) /\ InRange(line, maxOpt)
           /\ pc = "transition" /\ Denotes(line, pick)

\* a line that is empty, not a number, or a number outside 1..max
Invalid(l, max) == l = <<>> \/ ~AllDigits(l) \/ ~InRange(l, max)

\* C6 - Invalid input is recovered locally: after any line that is empty,
\* non-numeric or out of range the session is still Running at the prompt of
\* the same scene, with currentId and history as they were.
C6_LocalRecovery ==
    (LineRead /\ Invalid(line, maxOpt)) =>
        /\ pc = "prompt"
        /\ exit = "running"
        /\ node = currentId
        /\ Last(history) = currentId

\* C7 - Overflowing numeric input is rejected: after an all-digit line whose
\* value does not fit an int the player is re-prompted and the session is
\* still Running.
C7_OverflowRejected ==
    (LineRead /\ AllDigits(line) /\ DecVal(line).overflow) =>
        /\ pc = "prompt"
        /\ exit = "running"

\* C8 - Stream-failure fallback: when getline fails readMenuChoice returns 1
\* at once, also after rejected lines, printing no message and raising no
\* error, and the session moves to the target of the first declared choice
\* of the current scene.
C8_EofFallback ==
    eof =>
        /\ ~Aborted
        /\ pc = "prompt" => (~retried /\ msg = NoMsg)
        /\ pc = "transition" =>
              (pick = 1 /\ msg = NoMsg /\ line = <<>> /\ exit = "running")
        /\ JustMoved =>
              (pick = 1 /\ currentId = nodes[node].choices[1].nextId)

\* the stream ended after a rejected line, at a scene whose first two
\* choices have different targets, and the call returned the first
C8_Witness ==
    /\ eof
    /\ pc = "transition"
    /\ retried
    /\ pick = 1
    /\ Len(nodes[node].choices) >= 2
    /\ nodes[node].choices[1].nextId # nodes[node].choices[2].nextId

-----------------------------------------------------------------------------
(* Properties of whole sessions *)

\* following the first declared choice from id leads, within fuel steps, to
\* a scene without choices or to an id without a scene
RECURSIVE FirstChoiceChainEnds(_, _, _)
FirstChoiceChainEnds(g, id, fuel) ==
    IF id \notin DOMAIN g THEN TRUE
    ELSE IF Len(g[id].choices) = 0 THEN TRUE
    ELSE IF fuel = 0 THEN FALSE
    ELSE FirstChoiceChainEnds(g, g[id].choices[1].nextId, fuel - 1)

\* the chain of first choices from the current id does not run into a cycle
\* (a chain that ends visits each scene of the graph at most once)
FallbackEnds == FirstChoiceChainEnds(nodes, currentId, Cardinality(DOMAIN nodes))

\* C9 as stated - Session totality: once the input stream is exhausted the
\* session reaches Terminated or Broken, for every graph.
C9_Totality == eof ~> (Terminated \/ Broken)

\* C9 as amended - once the input stream is exhausted the session reaches
\* Terminated or Broken, provided the chain of first declared choices from
\* the current scene ends at a scene without choices or at a missing id.
C9_TotalityOnEndingChains == (eof /\ FallbackEnds) ~> (Terminated \/ Broken)

\* a session that ended in Terminated on the fallback selection, after the
\* stream ended at its second prompt or later
C9_Witness ==
    /\ eof
    /\ Terminated
    /\ Len(picks) >= 2
    /\ Last(picks) = 1

\* the ids visited from id under the selections ps
RECURSIVE Walk(_, _, _)
Walk(g, id, ps) ==
    IF id \notin DOMAIN g THEN <<>>
    ELSE IF Len(g[id].choices) = 0 \/ ps = <<>> THEN <<id>>
    ELSE <<id>> \o Walk(g, g[id].choices[Head(ps)].nextId, Tail(ps))

\* where the walk from id under the selections ps stands when ps is used up
RECURSIVE EndOf(_, _, _)
EndOf(g, id, ps) ==
    IF id \notin DOMAIN g THEN "broken"
    ELSE IF Len(g[id].choices) = 0 THEN "terminated"
    ELSE IF ps = <<>> THEN "running"
    ELSE EndOf(g, g[id].choices[Head(ps)].nextId, Tail(ps))

\* C10 - Determinism: history and the end state are a function of the graph,
\* the start id and the sequence of selections alone, so two runs that
\* agree on these agree on history and on the end state.  Stated where the
\* scene under the cursor has been recorded, and in the end states.
C10_Determinism ==
    /\ pc \in {"render", "check", "menu", "prompt", "terminated", "broken",
               "aborted"}
          => history = Walk(nodes, StartId, picks)
    /\ Terminated => EndOf(nodes, StartId, picks) = "terminated"
    /\ Broken => EndOf(nodes, StartId, picks) = "broken"
    /\ (pc # "build" /\ EndOf(nodes, StartId, picks) = "running")
          => (Running \/ Aborted)

\* a session of two selections, the second not the first option, that ended
\* in Terminated
C10_Witness ==
    /\ Terminated
    /\ Len(picks) = 2
    /\ picks[2] = 2
    /\ Len(history) = 3


-----------------------------------------------------------------------------
(* C11: end-to-end path *)

\* C11: when the session has ended in Terminated, history is the start id
\* followed, in order, by the target of each selected choice, and its last
\* element is the terminal scene; over ExampleGraph, selecting 2 and then 1
\* leads to nothing but Terminated, with history <<0, 2, 1>>.
C11_EndToEndPath ==
    /\ Terminated =>
          /\ Len(history) = Len(picks) + 1
          /\ history[1] = StartId
          /\ \A i \in 1 .. Len(picks) :
                /\ history[i] \in DOMAIN nodes
                /\ picks[i] \in 1 .. Len(nodes[history[i]].choices)
                /\ history[i + 1] = nodes[history[i]].choices[picks[i]].nextId
          /\ Last(history) \in DOMAIN nodes
          /\ Len(nodes[Last(history)].choices) = 0
    /\ (nodes = ExampleGraph /\ picks = <<2, 1>>) =>
          /\ pc \in {"transition", "resolve", "record", "render", "check",
                     "terminated"}
          /\ pc \in {"render", "check", "terminated"} =>
                history = <<0, 2, 1>>

C11_Witness ==
    /\ nodes = ExampleGraph
    /\ Terminated
    /\ picks = <<2, 1>>
    /\ history = <<0, 2, 1>>


-----------------------------------------------------------------------------
(* C12: history is append-only *)

\* C12: every step of the program leaves history unchanged, except the
\* recording of the scene just resolved, which extends history by exactly
\* that scene's id at the end; nothing recorded is modified, reordered or
\* removed, and a scene entered again is recorded again, once per visit.
C12_AppendOnly ==
    [][IF pc = "record"
       THEN history' = Append(history, currentId)
       ELSE history' = history]_vars

\* a scene entered a second time stands twice in history
C12_Witness ==
    /\ Len(history) >= 2
    /\ history[1] = history[2]
    /\ Len(picks) >= 1


-----------------------------------------------------------------------------
(* C13: addNode is an upsert *)

\* C13: after any sequence of addNode calls, the lookup of the id of the
\* call last made returns the scene that call passed, whole, text and choice
\* list, whether or not a scene was stored under that id before; the call
\* leaves the scenes stored under every other id as they were and adds no
\* other id; and addNode can be called with any scene in any graph.
C13_Upsert ==
    /\ [](lastAdded # <<>> =>
             /\ get(nodes, lastAdded[1].id) # nullptr
             /\ nodes[get(nodes, lastAdded[1].id)] = lastAdded[1])
    /\ [](pc = "build" => \A n \in UpsertNode : ENABLED AddNode(n))
    /\ [][/\ lastAdded' # <<>>
          /\ DOMAIN nodes' = (DOMAIN nodes) \cup {lastAdded'[1].id}
          /\ \A i \in (DOMAIN nodes) \ {lastAdded'[1].id} :
                nodes'[i] = nodes[i]]_vars

\* a call has replaced a stored scene by one of another text and another
\* choice list, next to a scene stored under another id
C13_Witness ==
    /\ lastAdded # <<>>
    /\ lastAdded[2]
    /\ nodes[lastAdded[1].id] = lastAdded[1]
    /\ Cardinality(DOMAIN nodes) = 2


-----------------------------------------------------------------------------
(* C14: lookup and the immutability of the graph *)

\* C14: the lookup of the current id yields the stored scene exactly when
\* the graph holds a scene under that id, and otherwise yields the absent
\* result, which ends the session with status 1 and creates no entry; and
\* from the start of the session on no step changes the graph.
C14_LookupLeavesGraph ==
    /\ [](pc \in {"record", "render", "check", "menu", "prompt",
                  "transition", "terminated", "aborted"} =>
             /\ currentId \in DOMAIN nodes
             /\ node = currentId
             /\ nodes[node].id = currentId)
    /\ [](Broken =>
             /\ node = nullptr
             /\ currentId \notin DOMAIN nodes
             /\ exit = "1")
    /\ [][pc # "build" => nodes' = nodes]_vars

\* a session has looked up stored scenes and then a missing id
C14_Witness ==
    /\ Broken
    /\ currentId \notin DOMAIN nodes
    /\ nodes # EmptyGraph
    /\ Len(history) >= 2


-----------------------------------------------------------------------------
(* C15: reconvergence *)

\* the menu of the scene stored under d in the graph g
Offered(g, d) ==
    [i \in 1 .. Len(g[d].choices) |-> [num |-> i, choice |-> g[d].choices[i]]]

\* C15: whichever scene p the player has just left by a choice that targets
\* d, currentId is d; and the menu offered while the session stands at d is
\* the menu of d in the graph, the same whatever history led there.
C15_Reconvergence ==
    /\ JustMoved =>
          currentId = nodes[Last(history)].choices[pick].nextId
    /\ pc \in {"prompt", "transition"} =>
          /\ currentId = Last(history)
          /\ menu = Offered(nodes, currentId)
          /\ maxOpt = Len(Offered(nodes, currentId))

\* the session stands at the menu of a scene d that it has entered twice,
\* from two distinct scenes
C15_Witness ==
    /\ pc = "prompt"
    /\ Len(history) = 3
    /\ history[3] = currentId
    /\ history[2] = currentId
    /\ history[1] # currentId
    /\ menu # <<>>


-----------------------------------------------------------------------------
(* C16: the order of an iteration *)

\* the successions of positions of main
PhaseOrder ==
    { <<"build", "resolve">>,
      <<"resolve", "record">>, <<"resolve", "broken">>,
      <<"record", "render">>,
      <<"render", "check">>,
      <<"check", "terminated">>, <<"check", "menu">>,
      <<"menu", "prompt">>,
      <<"prompt", "transition">>, <<"prompt", "aborted">>,
      <<"transition", "resolve">> }

\* C16: within an iteration the phases follow one another in the order
\* resolve, append to history, render, check for an ending, show the menu,
\* prompt and validate, transition; at every prompt the text and the whole
\* menu of the current scene have been rendered in this iteration; the
\* scenes rendered are a prefix of history, so none is rendered before its
\* id is recorded; and currentId changes only in the transition that
\* follows a validated selection, which ends the iteration.
C16_IterationOrder ==
    /\ [][pc' # pc => <<pc, pc'>> \in PhaseOrder]_vars
    /\ [](pc \in {"prompt", "transition"} =>
             /\ Len(rendered) = Len(history)
             /\ Last(rendered) = currentId
             /\ menu # <<>>
             /\ Len(menu) = Len(nodes[currentId].choices)
             /\ \A i \in 1 .. Len(menu) :
                   menu[i].choice = nodes[currentId].choices[i])
    /\ [](/\ Len(rendered) <= Len(history)
          /\ \A i \in 1 .. Len(rendered) : rendered[i] = history[i])
    /\ [][currentId' # currentId =>
             /\ pc = "transition"
             /\ pc' = "resolve"
             /\ pick \in 1 .. Len(nodes[currentId].choices)
             /\ currentId' = nodes[currentId].choices[pick].nextId]_vars

\* the second iteration has come to its transition, to another scene
C16_Witness ==
    /\ pc = "transition"
    /\ Len(history) = 2
    /\ rendered = history
    /\ menu # <<>>
    /\ nodes[currentId].choices[pick].nextId # currentId


-----------------------------------------------------------------------------
(* C17: prompting only at scenes with choices *)

\* C17: whenever readMenuChoice is running or has returned, the current
\* scene has at least one choice and maxOpt is the number of its choices;
\* and the index pick - 1 used by the transition lies within the choice list
\* of the current scene, also when pick is the fallback of a failed stream.
C17_PromptOnlyWithChoices ==
    /\ pc \in {"menu", "prompt", "transition"} =>
          /\ currentId \in DOMAIN nodes
          /\ Len(nodes[currentId].choices) >= 1
    /\ pc \in {"prompt", "transition"} =>
          /\ maxOpt = Len(nodes[currentId].choices)
          /\ maxOpt >= 1
    /\ pc = "transition" =>
          /\ 0 <= pick - 1
          /\ pick - 1 < Len(nodes[currentId].choices)

\* the fallback of a failed stream at a scene with a single choice
C17_Witness ==
    /\ pc = "transition"
    /\ eof
    /\ pick = 1
    /\ Len(nodes[currentId].choices) = 1
    /\ Len(history) >= 2


-----------------------------------------------------------------------------
(* C18: the graph of buildGame is well formed *)

\* C18: once buildGame has returned, the graph holds exactly the 16 scenes
\* of ids 0..15, each under its own id, and every choice of every scene
\* targets one of these ids; the session over it resolves every id it comes
\* to and never reaches Broken.
C18_ShippedWellFormed ==
    /\ pc # "build" =>
          /\ DOMAIN nodes = 0 .. 15
          /\ Cardinality(DOMAIN nodes) = 16
          /\ \A i \in DOMAIN nodes :
                /\ nodes[i].id = i
                /\ \A k \in 1 .. Len(nodes[i].choices) :
                      nodes[i].choices[k].nextId \in 0 .. 15
          /\ currentId \in DOMAIN nodes
    /\ ~Broken
    /\ errId = <<>>

\* a session has come through the deepest scenes of the graph to its end
C18_Witness ==
    /\ Terminated
    /\ DOMAIN nodes = 0 .. 15
    /\ history = <<0, 2, 5, 1, 3, 7, 13, 15>>


-----------------------------------------------------------------------------
(* C19: the graph of buildGame is acyclic, play is bounded *)

\* C19: in every session over the graph of buildGame no id stands twice in
\* history; a prompt is shown after at most 6 validated selections, and
\* each validated selection leads on to the next prompt or to Terminated,
\* so that the session is over after at most 7 of them; Terminated is
\* reached after no fewer than 3 and no more than 7 validated selections,
\* with a history of 4 to 8 ids that ends in one of 8, 9, 10, 11, 12, 14, 15.
C19_ShippedBounded ==
    /\ [](/\ \A i, j \in 1 .. Len(history) :
                i # j => history[i] # history[j]
          /\ Len(history) <= 8
          /\ Len(picks) <= 7
          /\ pc \in {"menu", "prompt"} => Len(picks) <= 6
          /\ Terminated =>
                /\ Len(picks) >= 3
                /\ Len(picks) <= 7
                /\ Len(history) = Len(picks) + 1
                /\ Len(history) >= 4
                /\ Last(history) \in {8, 9, 10, 11, 12, 14, 15})
    /\ (pc = "transition") ~> (pc = "prompt" \/ Terminated)

\* the shortest session and the longest have both happened somewhere; this
\* is the end of a longest one, and C19_ShortestWitness that of a shortest
C19_Witness ==
    /\ Terminated
    /\ Len(picks) = 7
    /\ Len(history) = 8
    /\ Last(history) = 15

C19_ShortestWitness ==
    /\ Terminated
    /\ Len(picks) = 3
    /\ Len(history) = 4


-----------------------------------------------------------------------------
(* C20: the fallback path through the graph of buildGame *)

\* C20: once the input stream has failed, every id appended to history is
\* the target of the first choice of the id before it, so that the rest of
\* history is the chain of first choices from the scene where the stream
\* failed; and when the stream fails at the first prompt, the session goes
\* on to Terminated with history <<0, 1, 3, 6, 11>>.
C20_FallbackPath ==
    /\ [][(eof /\ history' # history) =>
             /\ history # <<>>
             /\ Len(nodes[Last(history)].choices) >= 1
             /\ history' =
                   Append(history, nodes[Last(history)].choices[1].nextId)]_vars
    /\ (eof /\ pc = "transition" /\ Len(picks) = 1)
          ~> (Terminated /\ history = <<0, 1, 3, 6, 11>>)
    /\ eof ~> Terminated

\* the end of the session whose stream failed at the first prompt
C20_Witness ==
    /\ eof
    /\ Terminated
    /\ picks = <<1, 1, 1, 1>>
    /\ history = <<0, 1, 3, 6, 11>>

=============================================================================
